---- MODULE Spec2Model ----
(***************************************************************************)
(* Model of the per-client transaction ledger of rust-challenge-csv:       *)
(* Client::add_transaction (the acceptance filter that appends to the      *)
(* history) and Client::get_entry (the replay that derives the snapshot),  *)
(* over the fixed-point Amount type of amount.rs.                          *)
(***************************************************************************)
EXTENDS Integers, Sequences, FiniteSets

\* ---------------------------------------------------------------- bounds
MaxLen == 4         \* longest history explored
MaxTx == 2          \* transaction ids 1..MaxTx
MaxAmount == 2      \* scaled amounts 0..MaxAmount of submitted records
MaxClient == 2      \* client ids 1..MaxClient
MaxUnits == 1       \* formatted values have an integer part of -MaxUnits..MaxUnits
UnderlyingMax == 99999  \* stands for i64::MAX: the model narrows UnderlyingAmountType
MaxDelta == 2       \* operands of + and - lie within MaxDelta of the range ends and of 0

TxIds == 1..MaxTx
Amounts == 0..MaxAmount
ClientIds == 1..MaxClient

\* ---------------------------------------------------------------- Amount
\* Amount is a scaled UnderlyingAmountType (amount.rs:12-17), a signed
\* two's-complement integer of the range UnderlyingMin..UnderlyingMax.
UnderlyingMin == 0 - UnderlyingMax - 1
Representable(x) == UnderlyingMin <= x /\ x <= UnderlyingMax

\* the value a wrapping operation leaves (a build without overflow checks)
Wrap(x) == ((x - UnderlyingMin) % (2 * (UnderlyingMax + 1))) + UnderlyingMin

AmountNew(value) == value

AmountAdd(a, b) == AmountNew(Wrap(a + b))

AmountSub(a, b) == AmountNew(Wrap(a - b))

\* Option<T>: None is the empty sequence, Some(x) the one-element sequence.
None == <<>>
Some(x) == <<x>>
unwrap(o) == o[1]

\* ------------------------------------------------- ClientTransaction
ClientTransactionType == {"Deposit", "Withdrawal", "Dispute", "Resolve", "Chargeback"}

deposit(i, a) == [id |-> i, tx_type |-> "Deposit", amount |-> Some(a)]
withdrawal(i, a) == [id |-> i, tx_type |-> "Withdrawal", amount |-> Some(a)]
dispute(i) == [id |-> i, tx_type |-> "Dispute", amount |-> None]
resolve(i) == [id |-> i, tx_type |-> "Resolve", amount |-> None]
chargeback(i) == [id |-> i, tx_type |-> "Chargeback", amount |-> None]

\* every record a caller can submit within the bounds
ClientTransaction ==
    {deposit(i, a) : i \in TxIds, a \in Amounts}
    \cup {withdrawal(i, a) : i \in TxIds, a \in Amounts}
    \cup {dispute(i) : i \in TxIds}
    \cup {resolve(i) : i \in TxIds}
    \cup {chargeback(i) : i \in TxIds}

\* ------------------------------------------------------------ ClientEntry
ClientEntryNew(i, available, held, locked) ==
    [id |-> i, available |-> available, held |-> held, locked |-> locked]

\* the total column as Display renders it: available + held
Total(e) == AmountAdd(e.available, e.held)

VARIABLES
    id,             \* Client.id
    transactions,   \* Client.transactions
    prev,           \* transactions as they were before the last add_transaction
    last,           \* the record handed to the last add_transaction (Option)
    entry,          \* what get_entry last returned since the history changed (Option)
    amt             \* an Amount operation: its name, its input and its outcome

vars == <<id, transactions, prev, last, entry, amt>>

\* iter().find(..): the first entry of txs with the given id and a type in types
Find(txs, i, types) ==
    LET S == {k \in 1..Len(txs) : txs[k].id = i /\ txs[k].tx_type \in types}
    IN  IF S = {} THEN None
        ELSE Some(txs[CHOOSE k \in S : \A m \in S : k <= m])

\* ------------------------------------------------------- add_transaction
AcceptsAlways(txs, tx) == TRUE

AcceptsZeroAmount(txs, tx) ==
    CASE tx.tx_type \in {"Deposit", "Withdrawal"} -> TRUE
      [] tx.tx_type = "Dispute" ->
            Find(txs, tx.id, {"Deposit", "Withdrawal"}) # None
      [] tx.tx_type \in {"Resolve", "Chargeback"} ->
            Find(txs, tx.id, {"Dispute"}) # None

\* the condition under which add_transaction pushes the record
Accepts(txs, tx) ==
    CASE tx.tx_type \in {"Deposit", "Withdrawal"} ->
            unwrap(tx.amount) # AmountNew(0)
      [] tx.tx_type = "Dispute" ->
            Find(txs, tx.id, {"Deposit", "Withdrawal"}) # None
      [] tx.tx_type \in {"Resolve", "Chargeback"} ->
            Find(txs, tx.id, {"Dispute"}) # None

add_transaction_push_front(txs, tx) ==
    IF Accepts(txs, tx) THEN <<tx>> \o txs ELSE txs

add_transaction(txs, tx) ==
    IF Accepts(txs, tx) THEN Append(txs, tx) ELSE txs

\* ------------------------------------------------------------- get_entry
\* The locals of get_entry: available, held, locked and the disputed map
\* (a function whose domain is the set of keys present).
ReplayInit ==
    [available |-> AmountNew(0), held |-> AmountNew(0), locked |-> FALSE,
     disputed |-> <<>>]

MapInsert(m, k, v) == [x \in (DOMAIN m) \cup {k} |-> IF x = k THEN v ELSE m[x]]
MapRemove(m, k) == [x \in (DOMAIN m) \ {k} |-> m[x]]

ApplyDepositUnlock(st, tx) ==
    [st EXCEPT !.available = AmountAdd(st.available, unwrap(tx.amount)),
               !.locked = FALSE]

ApplyDeposit(st, tx) ==
    [st EXCEPT !.available = AmountAdd(st.available, unwrap(tx.amount))]

ApplyWithdrawalIgnoreFunds(st, tx) ==
    IF ~st.locked
    THEN [st EXCEPT !.available = AmountSub(st.available, unwrap(tx.amount))]
    ELSE st

ApplyWithdrawalIgnoreLock(st, tx) ==
    IF st.available >= unwrap(tx.amount)
    THEN [st EXCEPT !.available = AmountSub(st.available, unwrap(tx.amount))]
    ELSE st

ApplyWithdrawal(st, tx) ==
    IF st.available >= unwrap(tx.amount) /\ ~st.locked
    THEN [st EXCEPT !.available = AmountSub(st.available, unwrap(tx.amount))]
    ELSE st

ApplyDisputeNoNegate(txs, st, tx) ==
    LET found == Find(txs, tx.id, {"Deposit", "Withdrawal"})
    IN  IF found # None
        THEN LET amount == unwrap(unwrap(found).amount)
             IN  [st EXCEPT !.disputed = MapInsert(st.disputed, tx.id, amount),
                            !.available = AmountSub(st.available, amount),
                            !.held = AmountAdd(st.held, amount)]
        ELSE st

ApplyDispute(txs, st, tx) ==
    LET found == Find(txs, tx.id, {"Deposit", "Withdrawal"})
    IN  IF found # None
        THEN LET tx_found == unwrap(found)
                 amount == IF tx_found.tx_type = "Withdrawal"
                           THEN AmountSub(AmountNew(0), unwrap(tx_found.amount))
                           ELSE unwrap(tx_found.amount)
             IN  [st EXCEPT !.disputed = MapInsert(st.disputed, tx.id, amount),
                            !.available = AmountSub(st.available, amount),
                            !.held = AmountAdd(st.held, amount)]
        ELSE st

ApplyResolveKeepOpen(st, tx) ==
    IF tx.id \in DOMAIN st.disputed
    THEN [st EXCEPT !.held = AmountSub(st.held, st.disputed[tx.id]),
                    !.available = AmountAdd(st.available, st.disputed[tx.id])]
    ELSE st

ApplyResolveKeepAvailable(st, tx) ==
    IF tx.id \in DOMAIN st.disputed
    THEN [st EXCEPT !.held = AmountSub(st.held, st.disputed[tx.id]),
                    !.disputed = MapRemove(st.disputed, tx.id)]
    ELSE st

ApplyResolve(st, tx) ==
    IF tx.id \in DOMAIN st.disputed
    THEN [st EXCEPT !.held = AmountSub(st.held, st.disputed[tx.id]),
                    !.available = AmountAdd(st.available, st.disputed[tx.id]),
                    !.disputed = MapRemove(st.disputed, tx.id)]
    ELSE st

ApplyChargebackRestore(st, tx) ==
    IF tx.id \in DOMAIN st.disputed
    THEN [st EXCEPT !.locked = TRUE,
                    !.held = AmountSub(st.held, st.disputed[tx.id]),
                    !.available = AmountAdd(st.available, st.disputed[tx.id]),
                    !.disputed = MapRemove(st.disputed, tx.id)]
    ELSE st

ApplyChargebackAlwaysLock(st, tx) ==
    IF tx.id \in DOMAIN st.disputed
    THEN [st EXCEPT !.locked = TRUE,
                    !.held = AmountSub(st.held, st.disputed[tx.id]),
                    !.disputed = MapRemove(st.disputed, tx.id)]
    ELSE [st EXCEPT !.locked = TRUE]

ApplyChargeback(st, tx) ==
    IF tx.id \in DOMAIN st.disputed
    THEN [st EXCEPT !.locked = TRUE,
                    !.held = AmountSub(st.held, st.disputed[tx.id]),
                    !.disputed = MapRemove(st.disputed, tx.id)]
    ELSE st

\* one iteration of the loop over self.transactions
ReplayStep(txs, st, tx) ==
    CASE tx.tx_type = "Deposit" -> ApplyDeposit(st, tx)
      [] tx.tx_type = "Withdrawal" -> ApplyWithdrawal(st, tx)
      [] tx.tx_type = "Dispute" -> ApplyDispute(txs, st, tx)
      [] tx.tx_type = "Resolve" -> ApplyResolve(st, tx)
      [] tx.tx_type = "Chargeback" -> ApplyChargeback(st, tx)

\* the locals after the first n iterations of the loop, started from st0
RECURSIVE ReplayFrom(_, _, _)
ReplayFrom(txs, n, st0) ==
    IF n = 0 THEN st0
    ELSE LET st == ReplayFrom(txs, n - 1, st0) IN ReplayStep(txs, st, txs[n])

Replay(txs, n) == ReplayFrom(txs, n, ReplayInit)

\* the accumulators carried over from the entry returned by the previous call
get_entry_carry(i, txs) ==
    LET st0 == IF entry = None THEN ReplayInit
               ELSE [ReplayInit EXCEPT !.available = unwrap(entry).available,
                                       !.held = unwrap(entry).held,
                                       !.locked = unwrap(entry).locked]
        st == ReplayFrom(txs, Len(txs), st0)
    IN  ClientEntryNew(i, st.available, st.held, st.locked)

get_entry(i, txs) ==
    LET st == Replay(txs, Len(txs))
    IN  ClientEntryNew(i, st.available, st.held, st.locked)

\* ---------------------------------------------------------- state machine
Init ==
    /\ id = 1
    /\ transactions = <<>>
    /\ prev = <<>>
    /\ last = None
    /\ entry = None
    /\ amt = None

\* The records come from a log in which a tx id belongs to one Deposit or
\* Withdrawal: none is submitted under a tx id that a retained Deposit or
\* Withdrawal already has.
FreshTx(txs, tx) ==
    tx.tx_type \in {"Deposit", "Withdrawal"} =>
        \A k \in 1..Len(txs) :
            ~(txs[k].id = tx.id /\ txs[k].tx_type \in {"Deposit", "Withdrawal"})

\* client.add_transaction(tx)
AddTransaction ==
    \E tx \in ClientTransaction :
        /\ Len(transactions) < MaxLen
        /\ FreshTx(transactions, tx)
        /\ transactions' = add_transaction(transactions, tx)
        /\ prev' = transactions
        /\ last' = Some(tx)
        /\ entry' = IF transactions' = transactions THEN entry ELSE None
        /\ UNCHANGED <<id, amt>>

\* client.get_entry()
GetEntry ==
    /\ entry' = Some(get_entry(id, transactions))
    /\ UNCHANGED <<id, transactions, prev, last, amt>>

Next == AddTransaction \/ GetEntry

Spec == Init /\ [][Next]_vars

\* the histories a sequence of add_transaction calls builds, with no call of
\* get_entry in between: get_entry takes &self and changes nothing of the
\* client, so the snapshot of a history is get_entry applied to it
NextHistory == AddTransaction

SpecHistory == Init /\ [][NextHistory]_vars

\* ------------------------------------------------- Amount: decomposition
DECIMAL_PLACES == 4
AMOUNT_ONE == 10000

\* the / of Rust on integers truncates toward zero (b > 0)
TruncDiv(a, b) == IF a >= 0 THEN a \div b ELSE 0 - ((0 - a) \div b)

trunc_fract_floor(value) ==
    <<value \div AMOUNT_ONE, value - (value \div AMOUNT_ONE) * AMOUNT_ONE>>

trunc_fract(value) ==
    LET trunc == TruncDiv(value, AMOUNT_ONE)
        xx == trunc * AMOUNT_ONE
        fract == value - xx
    IN  <<trunc, fract>>

\* ------------------------------------------------------ Amount: Display
\* Text is a sequence of one-character strings.
DigitChars == <<"0", "1", "2", "3", "4", "5", "6", "7", "8", "9">>

\* the decimal digits of a natural number
RECURSIVE NatToChars(_)
NatToChars(n) ==
    IF n < 10 THEN <<DigitChars[n + 1]>>
    ELSE Append(NatToChars(n \div 10), DigitChars[(n % 10) + 1])

\* "{}" of an integer
IntToChars(n) == IF n < 0 THEN <<"-">> \o NatToChars(0 - n) ELSE NatToChars(n)

\* "{:0>width$}" of a natural number
RECURSIVE PadLeft(_, _)
PadLeft(chars, width) ==
    IF Len(chars) >= width THEN chars ELSE PadLeft(<<"0">> \o chars, width)

RECURSIVE count_remove_trailing_zeroes_loop(_, _)
count_remove_trailing_zeroes_loop(count, value) ==
    IF value % 10 = 0
    THEN count_remove_trailing_zeroes_loop(count + 1, value \div 10)
    ELSE <<count, value>>

count_remove_trailing_zeroes(value) ==
    IF value > 0 THEN count_remove_trailing_zeroes_loop(0, value) ELSE <<0, value>>

Abs(n) == IF n < 0 THEN 0 - n ELSE n

\* impl fmt::Display for Amount
AmountFmt(value) ==
    LET tf == trunc_fract(value)
    IN  IF tf[2] = 0 THEN IntToChars(tf[1])
        ELSE LET cf == count_remove_trailing_zeroes(Abs(tf[2]))
                 width == DECIMAL_PLACES - cf[1]
             IN  IntToChars(tf[1]) \o <<".">> \o PadLeft(NatToChars(cf[2]), width)

\* --------------------------------------------- Amount: state machine
FormatValues == (1 - (MaxUnits + 1) * AMOUNT_ONE)..((MaxUnits + 1) * AMOUNT_ONE - 1)

\* the operation of amt has not run yet
Input(op, in) == [op |-> op, in |-> in, done |-> FALSE, out |-> None]
Ok(x) == [kind |-> "ok", value |-> x]
Panic == [kind |-> "panic", value |-> None]

\* Overflow of + and - panics in a build with overflow checks (debug) and
\* wraps in one without (release).
Builds == {"debug", "release"}

ArithValues ==
    (UnderlyingMin..(UnderlyingMin + MaxDelta))
    \cup ((0 - MaxDelta)..MaxDelta)
    \cup ((UnderlyingMax - MaxDelta)..UnderlyingMax)
    \cup {AMOUNT_ONE, AMOUNT_ONE + 1}

\* a + b of amount.rs (impl Add)
AddOutcome(a, b, build) ==
    IF build = "debug" /\ ~Representable(a + b) THEN Panic ELSE Ok(AmountAdd(a, b))

\* a - b of amount.rs (impl Sub)
SubOutcome(a, b, build) ==
    IF build = "debug" /\ ~Representable(a - b) THEN Panic ELSE Ok(AmountSub(a, b))

\* a - b of the unsigned Amount of main.rs (impl Sub), a and b not negative
MainSubOutcome(a, b) ==
    IF a < b THEN Panic ELSE Ok(a - b)

\* (a + b) - b
AddSubOutcome(a, b, build) ==
    LET sum == AddOutcome(a, b, build)
    IN  IF sum.kind = "panic" THEN Panic ELSE SubOutcome(sum.value, b, build)

\* s.split('.'): the pieces of s between the '.' characters
RECURSIVE Split(_, _)
Split(chars, piece) ==
    IF chars = <<>> THEN <<piece>>
    ELSE IF Head(chars) = "." THEN <<piece>> \o Split(Tail(chars), <<>>)
    ELSE Split(Tail(chars), Append(piece, Head(chars)))

IsDigit(c) == \E i \in 1..Len(DigitChars) : DigitChars[i] = c

DigitValue(c) == (CHOOSE i \in 1..Len(DigitChars) : DigitChars[i] = c) - 1

\* the number a sequence of digits denotes
RECURSIVE DigitsToNat(_, _)
DigitsToNat(chars, acc) ==
    IF chars = <<>> THEN acc
    ELSE DigitsToNat(Tail(chars), 10 * acc + DigitValue(Head(chars)))

\* i64::from_str_radix(src, 10): an optional sign and at least one digit,
\* None for the Err it returns otherwise
from_str_radix(src) ==
    LET signed == src # <<>> /\ Head(src) \in {"+", "-"}
        digits == IF signed THEN Tail(src) ELSE src
        n == DigitsToNat(digits, 0)
        value == IF signed /\ Head(src) = "-" THEN 0 - n ELSE n
    IN  IF digits = <<>> \/ \E i \in 1..Len(digits) : ~IsDigit(digits[i]) THEN None
        ELSE IF ~Representable(value) THEN None
        ELSE Some(value)

\* the fraction digits the buffer [b'0'; 6] of parse_fractional_str holds
\* after "0."
FRACT_BYTES == 4

\* f32 keeps 24 significant bits
MANTISSA_DIGITS == 24

\* the least k with d * 2^k >= 10^FRACT_BYTES
RECURSIVE F32Exponent(_, _)
F32Exponent(d, k) ==
    IF d * 2^k >= 10^FRACT_BYTES THEN k ELSE F32Exponent(d, k + 1)

\* n more quotient bits of the long division by 10^FRACT_BYTES
RECURSIVE F32Divide(_, _, _)
F32Divide(q, r, n) ==
    IF n = 0 THEN <<q, r>>
    ELSE F32Divide(2 * q + ((2 * r) \div 10^FRACT_BYTES),
                   (2 * r) % 10^FRACT_BYTES, n - 1)

\* f32::from_str of "0.dddd" for the digits d > 0: <<m, k>> with the value
\* m / 2^(k + 23), the quotient d / 10^4 rounded to 24 significant bits,
\* ties to even
F32FromStr(d) ==
    LET k == F32Exponent(d, 0)
        qr == F32Divide(1, d * 2^k - 10^FRACT_BYTES, MANTISSA_DIGITS - 1)
        q == qr[1]
        r == qr[2]
        up == 2 * r > 10^FRACT_BYTES \/ (2 * r = 10^FRACT_BYTES /\ q % 2 = 1)
    IN  <<IF up THEN q + 1 ELSE q, k>>

\* (floating_point * AMOUNT_ONE as f32) as i64 for floating_point = m / 2^(k + 23):
\* the exact product m * AMOUNT_ONE in two 12-bit limbs, rounded to 24
\* significant bits, ties to even, and truncated to an integer
F32MulAsInt(m, k) ==
    LET limb == 2^(MANTISSA_DIGITS \div 2)
        A == (m \div limb) * AMOUNT_ONE
        B == (m % limb) * AMOUNT_ONE
        H == A + (B \div limb)
        L == B % limb
        s == IF H < 2^(MANTISSA_DIGITS + 1) THEN 1 ELSE 2
        P == H \div 2^s
        rest == (H % 2^s) * limb + L
        half == 2^(s - 1) * limb
        up == rest > half \/ (rest = half /\ P % 2 = 1)
        rounded == IF up THEN P + 1 ELSE P
    IN  rounded \div 2^(k + (MANTISSA_DIGITS \div 2) - 1 - s)

\* parse_fractional_str(s): None where one of its expect calls panics
parse_fractional_str(s) ==
    LET filled == SubSeq(s, 1, IF Len(s) < FRACT_BYTES THEN Len(s) ELSE FRACT_BYTES)
        buffer == filled \o [i \in 1..(FRACT_BYTES - Len(filled)) |-> "0"]
        d == DigitsToNat(buffer, 0)
    IN  IF \E i \in 1..Len(buffer) : ~IsDigit(buffer[i]) THEN None
        ELSE IF d = 0 THEN Some(0)
        ELSE LET f == F32FromStr(d) IN Some(F32MulAsInt(f[1], f[2]))

\* impl Deserialize for Amount, of the string s
Deserialize(s, build) ==
    LET it == Split(s, <<>>)
        trunc == from_str_radix(it[1])
    IN  IF trunc = None THEN Panic
        ELSE IF Len(it) >= 2
        THEN LET fract == parse_fractional_str(it[2])
             IN  IF fract = None THEN Panic
                 ELSE IF build = "debug"
                         /\ ~(/\ Representable(unwrap(trunc) * AMOUNT_ONE)
                              /\ Representable(unwrap(trunc) * AMOUNT_ONE + unwrap(fract)))
                 THEN Panic
                 ELSE Ok(AmountNew(Wrap(unwrap(trunc) * AMOUNT_ONE + unwrap(fract))))
        ELSE Ok(AmountNew(unwrap(trunc)))

\* the integer parts of the strings parsed: small numbers, the 5 of the
\* documentation's example, and strings that are no integer literal
WholeStrings ==
    {IntToChars(n) : n \in ((0 - MaxUnits)..MaxUnits) \cup {5}}
    \cup {<<>>, <<"x">>, <<"-">>, <<"+", "1">>}

\* the fraction of n digits that reads as the number d
FractString(d, n) == IF n = 0 THEN <<>> ELSE PadLeft(NatToChars(d), n)

\* fraction parts other than up to FRACT_BYTES digits: one digit more, and
\* a string that holds no digit
OtherFractStrings == {<<"1", "2", "3", "4", "9">>, <<"x">>}

\* the process ends with the exit code
Exit(code) == [kind |-> "exit", value |-> code]

\* read_input_csv(path): "err" when the file does not open or a row does
\* not deserialize, rows[i] telling whether row i deserializes
RECURSIVE read_rows(_)
read_rows(rows) ==
    IF rows = <<>> THEN "ok"
    ELSE IF ~Head(rows) THEN "err"
    ELSE read_rows(Tail(rows))

read_input_csv(opens, rows) == IF ~opens THEN "err" ELSE read_rows(rows)

\* main() of main.rs, args telling whether a path argument was given
main(args, opens, rows) ==
    IF ~args THEN Panic
    ELSE IF read_input_csv(opens, rows) = "err" THEN Exit(1)
    ELSE Exit(0)

\* the operation a behaviour applies and its operands; the strings parsed
\* are an integer part alone, an integer part and a fraction part, and a
\* string with a second '.'
IsAmountInput(a) ==
    \/ \E v \in FormatValues : a = Input("fmt", <<v>>)
    \/ \E w \in WholeStrings : a = Input("parse", <<w>>)
    \/ \E w \in WholeStrings, n \in 0..FRACT_BYTES :
          \E d \in 0..(10^n - 1) :
             a = Input("parse", <<w \o <<".">> \o FractString(d, n)>>)
    \/ \E w \in WholeStrings, f \in OtherFractStrings :
          a = Input("parse", <<w \o <<".">> \o f>>)
    \/ a = Input("parse", <<<<"1", ".", "5", ".", "2">>>>)
    \/ \E args \in BOOLEAN, opens \in BOOLEAN, n \in 0..MaxTx :
          \E rows \in [1..n -> BOOLEAN] : a = Input("main", <<args, opens, rows>>)
    \/ \E v \in FormatValues \cup ArithValues : a = Input("fract", <<v>>)
    \/ \E a1 \in ArithValues, b1 \in ArithValues, bl \in Builds :
          a = Input("sub", <<a1, b1, bl>>)
    \/ \E a1 \in {v \in ArithValues : v >= 0}, b1 \in {v \in ArithValues : v >= 0} :
          a = Input("main_sub", <<a1, b1>>)
    \/ \E a1 \in ArithValues, b1 \in ArithValues, bl \in Builds :
          a = Input("add_sub", <<a1, b1, bl>>)

InitAmount ==
    /\ id = 1
    /\ transactions = <<>>
    /\ prev = <<>>
    /\ last = None
    /\ entry = None
    /\ IsAmountInput(amt)

\* format!("{}", Amount::new(v))
Format ==
    /\ amt.op = "fmt" /\ ~amt.done
    /\ amt' = [amt EXCEPT !.done = TRUE, !.out = Ok(AmountFmt(amt.in[1]))]
    /\ UNCHANGED <<id, transactions, prev, last, entry>>

\* Amount::new(a) - Amount::new(b)
Sub ==
    /\ amt.op = "sub" /\ ~amt.done
    /\ amt' = [amt EXCEPT !.done = TRUE,
                          !.out = SubOutcome(amt.in[1], amt.in[2], amt.in[3])]
    /\ UNCHANGED <<id, transactions, prev, last, entry>>

\* Amount::new(a) - Amount::new(b) with the Amount of main.rs
MainSub ==
    /\ amt.op = "main_sub" /\ ~amt.done
    /\ amt' = [amt EXCEPT !.done = TRUE, !.out = MainSubOutcome(amt.in[1], amt.in[2])]
    /\ UNCHANGED <<id, transactions, prev, last, entry>>

\* (Amount::new(a) + Amount::new(b)) - Amount::new(b)
AddSub ==
    /\ amt.op = "add_sub" /\ ~amt.done
    /\ amt' = [amt EXCEPT !.done = TRUE,
                          !.out = AddSubOutcome(amt.in[1], amt.in[2], amt.in[3])]
    /\ UNCHANGED <<id, transactions, prev, last, entry>>

\* Amount::new(v).trunc() and Amount::new(v).fract()
TruncFract ==
    /\ amt.op = "fract" /\ ~amt.done
    /\ amt' = [amt EXCEPT !.done = TRUE, !.out = Ok(trunc_fract(amt.in[1]))]
    /\ UNCHANGED <<id, transactions, prev, last, entry>>

\* Amount::deserialize of a field of the input
Parse ==
    /\ amt.op = "parse" /\ ~amt.done
    /\ \E build \in Builds :
          amt' = [amt EXCEPT !.done = TRUE, !.out = Deserialize(amt.in[1], build)]
    /\ UNCHANGED <<id, transactions, prev, last, entry>>

\* one run of the program
Main ==
    /\ amt.op = "main" /\ ~amt.done
    /\ amt' = [amt EXCEPT !.done = TRUE, !.out = main(amt.in[1], amt.in[2], amt.in[3])]
    /\ UNCHANGED <<id, transactions, prev, last, entry>>

NextAmount == Format \/ Sub \/ MainSub \/ AddSub \/ TruncFract \/ Parse \/ Main

SpecAmount == InitAmount /\ [][NextAmount]_vars

\* ------------------------------------------------------------ properties
Called == last # None
Pushed == Called /\ transactions = Append(prev, unwrap(last))
Dropped == Called /\ transactions = prev

HasEntry(txs, i, types) ==
    \E k \in 1..Len(txs) : txs[k].id = i /\ txs[k].tx_type \in types

\* the snapshot fields of the locals after n iterations
Balances(st) == <<st.available, st.held, st.locked>>
EntryBalances(e) == <<e.available, e.held, e.locked>>

\* the sign-adjusted amount of the original of tx id i in txs
SignedAmount(txs, i) ==
    LET orig == unwrap(Find(txs, i, {"Deposit", "Withdrawal"}))
    IN  IF orig.tx_type = "Withdrawal" THEN 0 - unwrap(orig.amount)
        ELSE unwrap(orig.amount)

RemoveAt(txs, k) == SubSeq(txs, 1, k - 1) \o SubSeq(txs, k + 1, Len(txs))

\* the withdrawal at position k was skipped by the replay
Skipped(txs, k) ==
    /\ txs[k].tx_type = "Withdrawal"
    /\ \/ unwrap(txs[k].amount) > Replay(txs, k - 1).available
       \/ Replay(txs, k - 1).locked

\* C1: add_transaction pushes a Dispute iff the history already holds a
\* Deposit or Withdrawal with its tx id, and a Resolve or Chargeback iff it
\* already holds a Dispute with its tx id; so in every history each Dispute
\* has an earlier Deposit/Withdrawal and each Resolve/Chargeback an earlier
\* Dispute with the same tx id.
C1_CausalAcceptance ==
    /\ Called =>
          LET tx == unwrap(last)
          IN  /\ tx.tx_type = "Dispute" =>
                    (Pushed <=> HasEntry(prev, tx.id, {"Deposit", "Withdrawal"}))
              /\ tx.tx_type \in {"Resolve", "Chargeback"} =>
                    (Pushed <=> HasEntry(prev, tx.id, {"Dispute"}))
    /\ \A k \in 1..Len(transactions) :
          LET tx == transactions[k]
          IN  /\ tx.tx_type = "Dispute" =>
                    HasEntry(SubSeq(transactions, 1, k - 1), tx.id,
                             {"Deposit", "Withdrawal"})
              /\ tx.tx_type \in {"Resolve", "Chargeback"} =>
                    HasEntry(SubSeq(transactions, 1, k - 1), tx.id, {"Dispute"})

C1_Witness ==
    /\ Pushed
    /\ unwrap(last).tx_type = "Chargeback"
    /\ HasEntry(prev, unwrap(last).id, {"Dispute"})
    /\ \E k \in 1..Len(prev) : prev[k].tx_type = "Withdrawal"

\* the tx id of tx is not under open dispute in the replay of txs
NotOpen(txs, tx) == tx.id \notin DOMAIN Replay(txs, Len(txs)).disputed

\* C2 as stated: a Dispute whose tx id was never seen, and a Resolve or
\* Chargeback whose tx id was never seen or is not under open dispute,
\* leave the history and the snapshot unchanged.
C2_Original ==
    Called =>
       LET tx == unwrap(last)
           wrong == \/ /\ tx.tx_type = "Dispute"
                       /\ ~HasEntry(prev, tx.id, ClientTransactionType)
                    \/ /\ tx.tx_type \in {"Resolve", "Chargeback"}
                       /\ NotOpen(prev, tx)
       IN  wrong => /\ transactions = prev
                    /\ get_entry(id, transactions) = get_entry(id, prev)

\* C2 amended: a Dispute with no Deposit/Withdrawal of its tx id in the
\* history, and a Resolve or Chargeback with no Dispute of its tx id in the
\* history, leave history and snapshot unchanged; a Resolve or Chargeback
\* whose tx was disputed before but is not under open dispute is pushed onto
\* the history and leaves the snapshot unchanged.
C2_UnknownReference ==
    Called =>
       LET tx == unwrap(last)
       IN  /\ (tx.tx_type = "Dispute"
                 /\ ~HasEntry(prev, tx.id, {"Deposit", "Withdrawal"}))
              => (transactions = prev
                    /\ get_entry(id, transactions) = get_entry(id, prev))
           /\ (tx.tx_type \in {"Resolve", "Chargeback"}
                 /\ ~HasEntry(prev, tx.id, {"Dispute"}))
              => (transactions = prev
                    /\ get_entry(id, transactions) = get_entry(id, prev))
           /\ (tx.tx_type \in {"Resolve", "Chargeback"}
                 /\ HasEntry(prev, tx.id, {"Dispute"})
                 /\ NotOpen(prev, tx))
              => (transactions = Append(prev, tx)
                    /\ get_entry(id, transactions) = get_entry(id, prev))

C2_Witness ==
    /\ Pushed
    /\ unwrap(last).tx_type = "Chargeback"
    /\ HasEntry(prev, unwrap(last).id, {"Resolve"})
    /\ NotOpen(prev, unwrap(last))
    /\ ~get_entry(id, transactions).locked

\* C3: a Withdrawal that exceeds the available balance at its position, or
\* comes while the account is locked, changes none of available, held and
\* locked, and it is not debited later: unless a later Dispute cites its tx
\* id, the snapshot is the one of the history without that entry.
C3_SkippedWithdrawal ==
    /\ \A k \in 1..Len(transactions) :
          Skipped(transactions, k) =>
             /\ Balances(Replay(transactions, k)) = Balances(Replay(transactions, k - 1))
             /\ (\A m \in (k + 1)..Len(transactions) :
                    ~(transactions[m].tx_type = "Dispute"
                        /\ transactions[m].id = transactions[k].id))
                => EntryBalances(get_entry(id, transactions))
                     = EntryBalances(get_entry(id, RemoveAt(transactions, k)))
    /\ transactions = <<deposit(1, 1), withdrawal(2, 2)>> =>
          EntryBalances(get_entry(id, transactions)) = <<1, 0, FALSE>>

\* a skipped withdrawal followed by deposits that make the funds sufficient
C3_Witness ==
    \E k \in 1..Len(transactions) :
       /\ Skipped(transactions, k)
       /\ ~Replay(transactions, k - 1).locked
       /\ \E m \in (k + 1)..Len(transactions) : transactions[m].tx_type = "Deposit"
       /\ get_entry(id, transactions).available >= unwrap(transactions[k].amount)
       /\ ~HasEntry(transactions, transactions[k].id, {"Dispute"})

\* C4: a pushed Dispute of a Deposit of amount d lowers available by d and
\* raises held by d; of a Withdrawal of amount w it raises available by w
\* and lowers held by w; whatever the available balance, which may become
\* negative (deposit 2, withdraw 1, dispute the deposit: available -1, held 2).
C4_DisputeEffect ==
    /\ (Pushed /\ unwrap(last).tx_type = "Dispute") =>
          LET orig == unwrap(Find(prev, unwrap(last).id, {"Deposit", "Withdrawal"}))
              e0 == get_entry(id, prev)
              e1 == get_entry(id, transactions)
          IN  /\ orig.tx_type = "Deposit" =>
                    /\ e1.available = e0.available - unwrap(orig.amount)
                    /\ e1.held = e0.held + unwrap(orig.amount)
              /\ orig.tx_type = "Withdrawal" =>
                    /\ e1.available = e0.available + unwrap(orig.amount)
                    /\ e1.held = e0.held - unwrap(orig.amount)
    /\ transactions = <<deposit(1, 2), withdrawal(2, 1), dispute(1)>> =>
          EntryBalances(get_entry(id, transactions)) = <<0 - 1, 2, FALSE>>

C4_Witness ==
    /\ Pushed
    /\ unwrap(last).tx_type = "Dispute"
    /\ get_entry(id, prev).available > 0
    /\ get_entry(id, transactions).available < 0

C4_WitnessWithdrawal ==
    /\ Pushed
    /\ unwrap(last).tx_type = "Dispute"
    /\ unwrap(Find(prev, unwrap(last).id, {"Deposit", "Withdrawal"})).tx_type = "Withdrawal"
    /\ get_entry(id, transactions).held < 0

\* C5: a Dispute of a tx that is not under dispute, immediately followed by
\* a Resolve of the same tx, returns available and held to the values they
\* had before the Dispute and leaves locked unchanged.
C5_DisputeResolveRoundTrip ==
    \A k \in 1..(Len(transactions) - 1) :
       (/\ transactions[k].tx_type = "Dispute"
        /\ transactions[k + 1].tx_type = "Resolve"
        /\ transactions[k + 1].id = transactions[k].id
        /\ transactions[k].id \notin DOMAIN Replay(transactions, k - 1).disputed)
       => Balances(Replay(transactions, k + 1)) = Balances(Replay(transactions, k - 1))

C5_Witness ==
    \E k \in 1..(Len(transactions) - 1) :
       /\ transactions[k].tx_type = "Dispute"
       /\ transactions[k + 1].tx_type = "Resolve"
       /\ transactions[k + 1].id = transactions[k].id
       /\ transactions[k].id \notin DOMAIN Replay(transactions, k - 1).disputed
       /\ SignedAmount(transactions, transactions[k].id) < 0
       /\ Replay(transactions, k).held < Replay(transactions, k - 1).held

\* C6: a Chargeback of a tx under open dispute sets locked, lowers held by
\* the sign-adjusted amount of the disputed tx, closes the dispute and
\* leaves available as it was.
C6_ChargebackEffect ==
    \A k \in 1..Len(transactions) :
       LET tx == transactions[k]
           s0 == Replay(transactions, k - 1)
           s1 == Replay(transactions, k)
       IN  (tx.tx_type = "Chargeback" /\ tx.id \in DOMAIN s0.disputed) =>
              /\ s1.locked
              /\ s1.held = s0.held - SignedAmount(transactions, tx.id)
              /\ tx.id \notin DOMAIN s1.disputed
              /\ s1.available = s0.available

C6_Witness ==
    \E k \in 1..Len(transactions) :
       /\ transactions[k].tx_type = "Chargeback"
       /\ transactions[k].id \in DOMAIN Replay(transactions, k - 1).disputed
       /\ ~Replay(transactions, k - 1).locked
       /\ Replay(transactions, k - 1).held > 0
       /\ Replay(transactions, k).held = 0

\* C7: once the account is locked, every later Withdrawal is a no-op
\* whatever the available balance, every later Deposit raises available by
\* its amount, and later Disputes are applied.
C7_LockedAccount ==
    \A k \in 1..Len(transactions) :
       LET tx == transactions[k]
           s0 == Replay(transactions, k - 1)
           s1 == Replay(transactions, k)
       IN  s0.locked =>
              /\ s1.locked
              /\ tx.tx_type = "Withdrawal" => Balances(s1) = Balances(s0)
              /\ tx.tx_type = "Deposit" =>
                    /\ s1.available = s0.available + unwrap(tx.amount)
                    /\ s1.held = s0.held
              /\ tx.tx_type = "Dispute" =>
                    /\ s1.available = s0.available - SignedAmount(transactions, tx.id)
                    /\ s1.held = s0.held + SignedAmount(transactions, tx.id)
                    /\ tx.id \in DOMAIN s1.disputed

\* a withdrawal the funds would cover, on a locked account
C7_Witness ==
    \E k \in 1..Len(transactions) :
       /\ Replay(transactions, k - 1).locked
       /\ transactions[k].tx_type = "Withdrawal"
       /\ Replay(transactions, k - 1).available >= unwrap(transactions[k].amount)

C7_WitnessDeposit ==
    \E k \in 1..Len(transactions) :
       /\ Replay(transactions, k - 1).locked
       /\ transactions[k].tx_type \in {"Deposit", "Dispute"}

\* C8: a Deposit or Withdrawal of amount 0 is not pushed and leaves the
\* snapshot unchanged; a Dispute citing its tx id afterwards, when no
\* retained entry has that tx id, is rejected as it is on a history the
\* record was never submitted to; every Deposit or Withdrawal of a non-zero
\* amount is pushed.
C8_ZeroAmountDrop ==
    /\ Called =>
          LET tx == unwrap(last)
          IN  /\ (tx.tx_type \in {"Deposit", "Withdrawal"} /\ unwrap(tx.amount) = 0) =>
                    /\ transactions = prev
                    /\ get_entry(id, transactions) = get_entry(id, prev)
                    /\ add_transaction(transactions, dispute(tx.id))
                          = add_transaction(prev, dispute(tx.id))
                    /\ ~HasEntry(transactions, tx.id, ClientTransactionType) =>
                          add_transaction(transactions, dispute(tx.id)) = transactions
              /\ (tx.tx_type \in {"Deposit", "Withdrawal"} /\ unwrap(tx.amount) # 0) =>
                    transactions = Append(prev, tx)
    /\ \A k \in 1..Len(transactions) :
          transactions[k].amount # None => unwrap(transactions[k].amount) # 0

\* a zero-amount record under a tx id of its own, submitted to a history
\* that holds other entries
C8_Witness ==
    /\ Called
    /\ unwrap(last).amount = Some(0)
    /\ ~HasEntry(transactions, unwrap(last).id, ClientTransactionType)
    /\ Len(transactions) > 1

\* C9: every add_transaction leaves the history unchanged or appends the
\* submitted record at its end, and get_entry never changes the history.
C9_AppendOnly ==
    [][/\ \/ transactions' = transactions
          \/ transactions' = Append(transactions, unwrap(last'))
       /\ (entry' # None /\ entry' # entry) => transactions' = transactions]_vars

C9_Witness ==
    /\ Pushed
    /\ Len(prev) >= 2
    /\ prev[1] # unwrap(last)

RECURSIVE StripZeros(_)
StripZeros(chars) ==
    IF chars # <<>> /\ chars[Len(chars)] = "0"
    THEN StripZeros(SubSeq(chars, 1, Len(chars) - 1)) ELSE chars

Canonical(value) ==
    LET a == Abs(value)
        sign == IF value < 0 THEN <<"-">> ELSE <<>>
        whole == NatToChars(a \div AMOUNT_ONE)
        digits == StripZeros(PadLeft(NatToChars(a % AMOUNT_ONE), DECIMAL_PLACES))
    IN  IF digits = <<>> THEN sign \o whole ELSE sign \o whole \o <<".">> \o digits

Did(op) == amt # None /\ amt.op = op /\ amt.done

\* the operation of amt ended without failure and gave x
Gave(x) == amt.out.kind = "ok" /\ amt.out.value = x

\* C11: every scaled value, the negative ones with integer part 0 included
\* (-5000 is "-0.5"), is formatted as its canonical text.
C11_CanonicalFormat ==
    Did("fmt") => Gave(Canonical(amt.in[1]))

\* C12: a - b with a < b is the negative Amount of scaled value a - b, and
\* the subtraction does not panic.
C12_NegativeDifference ==
    (Did("sub") \/ Did("main_sub")) =>
       ((amt.in[1] < amt.in[2] /\ Representable(amt.in[1] - amt.in[2]))
           => Gave(amt.in[1] - amt.in[2]))

\* C14: for all representable a and b, (a + b) - b is a, without failure.
C14_AddSubExact ==
    Did("add_sub") => Gave(amt.in[1])

\* C15 as stated: the fractional component of every Amount value, negative
\* ones included, lies in [0, 10^4).
C15_Original ==
    Did("fract") => (0 <= amt.out.value[2] /\ amt.out.value[2] < AMOUNT_ONE)

\* C15 amended: the fractional component lies in (-10^4, 10^4) and is zero
\* or has the sign of the value: in [0, 10^4) for a value that is not
\* negative, in (-10^4, 0] for a negative one; with the integer component
\* it makes up the value.
C15_FractRange ==
    Did("fract") =>
       LET value == amt.in[1]
           trunc == amt.out.value[1]
           fract == amt.out.value[2]
       IN  /\ amt.out.kind = "ok"
           /\ value >= 0 => (0 <= fract /\ fract < AMOUNT_ONE)
           /\ value < 0 => (0 - AMOUNT_ONE < fract /\ fract <= 0)
           /\ trunc * AMOUNT_ONE + fract = value

C15_Witness ==
    /\ Did("fract")
    /\ amt.in[1] < 0 - AMOUNT_ONE
    /\ amt.out.value[2] < 0

\* a decimal string "<integer>" or "<integer>.<fraction>" with 1 to
\* DECIMAL_PLACES fraction digits
ValidDecimal(s) ==
    LET it == Split(s, <<>>)
        whole == from_str_radix(it[1])
    IN  /\ Len(it) <= 2
        /\ whole # None
        /\ it[1] = IntToChars(unwrap(whole))
        /\ Len(it) = 2 =>
              /\ Len(it[2]) \in 1..DECIMAL_PLACES
              /\ \A i \in 1..Len(it[2]) : IsDigit(it[2][i])

\* s without the trailing zeros of its fraction, and without the '.' when no
\* fraction digit is left
CanonicalString(s) ==
    LET it == Split(s, <<>>)
        digits == IF Len(it) = 2 THEN StripZeros(it[2]) ELSE <<>>
    IN  IF digits = <<>> THEN it[1] ELSE it[1] \o <<".">> \o digits

\* C13: formatting the Amount parsed from a valid decimal string with at
\* most 4 fraction digits gives the canonical form of the string; a string
\* with no fraction such as "5" parses to whole units and formats back as
\* itself.
C13_ParseFormatRoundTrip ==
    (Did("parse") /\ ValidDecimal(amt.in[1])) =>
       /\ amt.out.kind = "ok"
       /\ AmountFmt(amt.out.value) = CanonicalString(amt.in[1])

\* C16: an input fault is an error outcome with exit code 1, never a panic:
\* parsing an amount string whose integer part is no integer literal gives
\* a parse error value, and a run without a path argument exits with code 1.
C16_InputFaultIsError ==
    /\ Did("parse") => amt.out.kind # "panic"
    /\ (Did("parse") /\ from_str_radix(Split(amt.in[1], <<>>)[1]) = None)
          => amt.out.kind = "err"
    /\ Did("main") => amt.out.kind = "exit"
    /\ (Did("main") /\ ~amt.in[1]) => amt.out = Exit(1)

\* before position k of txs the dispute of tx id i was resolved or charged
\* back and i was not disputed again
Closed(txs, k, i) ==
    \E j \in 1..(k - 1) :
       /\ txs[j].id = i
       /\ txs[j].tx_type \in {"Resolve", "Chargeback"}
       /\ \A m \in (j + 1)..(k - 1) : ~(txs[m].id = i /\ txs[m].tx_type = "Dispute")

\* C17: a Resolve or Chargeback of a tx whose dispute was already resolved
\* or charged back leaves available, held and locked as they were: a
\* Chargeback after a Resolve does not lock the account and a second
\* Resolve moves no funds.
C17_ClosedDisputeNoEffect ==
    \A k \in 1..Len(transactions) :
       LET tx == transactions[k]
       IN  (tx.tx_type \in {"Resolve", "Chargeback"} /\ Closed(transactions, k, tx.id))
           => Balances(Replay(transactions, k)) = Balances(Replay(transactions, k - 1))

C17_Witness ==
    \E k \in 1..Len(transactions) :
       /\ transactions[k].tx_type = "Resolve"
       /\ Closed(transactions, k, transactions[k].id)
       /\ transactions[k - 1].tx_type = "Resolve"
       /\ Replay(transactions, k - 2).held > 0
       /\ Replay(transactions, k).held = 0

\* the sum of the amounts the map of open disputes holds
RECURSIVE SumDisputed(_)
SumDisputed(m) ==
    IF DOMAIN m = {} THEN 0
    ELSE LET i == CHOOSE x \in DOMAIN m : TRUE
         IN  m[i] + SumDisputed(MapRemove(m, i))

\* C18: the held balance of the snapshot is the sum of the sign-adjusted
\* amounts of the transactions under open dispute, and 0 when no dispute is
\* open, also when a tx was disputed more than once.
C18_HeldIsOpenDisputes ==
    LET st == Replay(transactions, Len(transactions))
    IN  /\ get_entry(id, transactions).held = SumDisputed(st.disputed)
        /\ (\A i \in TxIds : ~HasEntry(transactions, i, {"Dispute"})
                             \/ Closed(transactions, Len(transactions) + 1, i))
              => get_entry(id, transactions).held = 0

\* the histories of one or two deposits
DepositHistories ==
    {<<deposit(i, a)>> : i \in TxIds, a \in Amounts \ {0}}
    \cup {<<deposit(i, a), deposit(j, b)>> :
             i \in TxIds, j \in TxIds, a \in Amounts \ {0}, b \in Amounts \ {0}}

\* C19 as stated: the snapshot after each prefix is the state of a machine
\* that keeps only available, held, locked and the open disputes with their
\* amounts and applies each accepted record's rule when it arrives: what an
\* accepted record makes of the snapshot is fixed by these four and the
\* record, whatever history led to them.
C19_Original ==
    Pushed =>
       \A h \in DepositHistories :
          (Replay(h, Len(h)) = Replay(prev, Len(prev)) /\ Accepts(h, unwrap(last)))
          => get_entry(id, Append(h, unwrap(last))) = get_entry(id, transactions)

\* the Deposit and Withdrawal entries among the first n entries of txs
IsOriginal(tx) == tx.tx_type \in {"Deposit", "Withdrawal"}
Originals(txs, n) == SelectSeq(SubSeq(txs, 1, n), IsOriginal)

\* the machine that keeps available, held, locked, the open disputes with
\* their amounts, and the Deposit and Withdrawal entries received, and
\* applies the replay rule of an entry when the entry arrives
MachineInit == [state |-> ReplayInit, originals |-> <<>>]

MachineStep(m, tx) ==
    LET originals == IF IsOriginal(tx) THEN Append(m.originals, tx) ELSE m.originals
    IN  [state |-> ReplayStep(originals, m.state, tx), originals |-> originals]

\* the machine after the first n entries of txs arrived
RECURSIVE Incremental(_, _)
Incremental(txs, n) ==
    IF n = 0 THEN MachineInit
    ELSE LET m == Incremental(txs, n - 1) IN MachineStep(m, txs[n])

\* C19 amended: at every point of every sequence of records fed to
\* add_transaction, the snapshot get_entry returns for the records accepted
\* so far is the state of the machine that keeps available, held, locked,
\* the open disputes with their amounts and the type and amount of every
\* retained Deposit and Withdrawal, and applies each accepted record's
\* replay rule once when it arrives; an entry appended later does not
\* change the effect of an earlier one.
C19_ReplayIsIncremental ==
    LET n == Len(transactions)
        snapshot == EntryBalances(get_entry(id, transactions))
        machine == Incremental(transactions, n)
    IN  /\ snapshot = Balances(machine.state)
        /\ machine.originals = Originals(transactions, n)
        /\ Pushed =>
              LET before == Replay(prev, n - 1)
              IN  /\ Replay(transactions, n - 1) = before
                  /\ snapshot = Balances(ReplayStep(machine.originals, before,
                                                    unwrap(last)))

C19_Witness ==
    /\ Pushed
    /\ unwrap(last).tx_type = "Dispute"
    /\ Len(prev) >= 2
    /\ \E h \in DepositHistories : h # prev /\ Replay(h, Len(h)) = Replay(prev, Len(prev))
    /\ get_entry(id, transactions).available < get_entry(id, prev).available

\* the sum of the amounts of the Deposit entries of txs
RECURSIVE SumDeposits(_)
SumDeposits(txs) ==
    IF txs = <<>> THEN 0
    ELSE (IF Head(txs).tx_type = "Deposit" THEN unwrap(Head(txs).amount) ELSE 0)
         + SumDeposits(Tail(txs))

\* C20: the total of the account, available + held, is at most the sum of
\* the amounts of the retained deposits; the dispute and chargeback of a
\* withdrawal that the replay skipped credit nothing.
C20_TotalWithinDeposits ==
    Total(get_entry(id, transactions)) <= SumDeposits(transactions)

\* C21: an accepted Dispute or Resolve leaves the total, available + held,
\* of the snapshot as it was; of the entries pushed, a Deposit, a Withdrawal
\* that is not skipped and a Chargeback of a tx under open dispute change
\* the total, and no other does.
C21_TotalConserved ==
    Pushed =>
       LET tx == unwrap(last)
           st0 == Replay(prev, Len(prev))
           total0 == Total(ClientEntryNew(id, st0.available, st0.held, st0.locked))
           total1 == Total(get_entry(id, transactions))
           effective ==
              \/ tx.tx_type = "Deposit"
              \/ /\ tx.tx_type = "Withdrawal"
                 /\ unwrap(tx.amount) <= st0.available
                 /\ ~st0.locked
              \/ tx.tx_type = "Chargeback" /\ tx.id \in DOMAIN st0.disputed
       IN  /\ tx.tx_type \in {"Dispute", "Resolve"} => total1 = total0
           /\ effective <=> total1 # total0

C21_Witness ==
    /\ Pushed
    /\ unwrap(last).tx_type = "Resolve"
    /\ unwrap(last).id \in DOMAIN Replay(prev, Len(prev)).disputed
    /\ get_entry(id, transactions).available # get_entry(id, prev).available
    /\ Total(get_entry(id, transactions)) = Total(get_entry(id, prev))
    /\ Total(get_entry(id, transactions)) > 0

\* C22: once the snapshot is locked it stays locked whatever is appended,
\* and the snapshot of a history with no Chargeback entry is not locked.
C22_LockedMonotonic ==
    LET locked == get_entry(id, transactions).locked
    IN  /\ locked =>
              \E k \in 1..Len(transactions) : transactions[k].tx_type = "Chargeback"
        /\ Pushed => (locked \/ ~get_entry(id, prev).locked)

C22_Witness ==
    /\ Pushed
    /\ unwrap(last).tx_type = "Deposit"
    /\ get_entry(id, prev).locked
    /\ get_entry(id, transactions).locked
    /\ get_entry(id, transactions).available > get_entry(id, prev).available

====
